---- MODULE Spec2Model ----
(***************************************************************************)
(* Model of the honeypot API: the heuristic scam scorer                    *)
(* (Scam_detector.py), the intelligence extractor                          *)
(* (Intelligence_extractor.py), the note generator (Conversation_agent.py),*)
(* the in-memory session store (Session_manager.py) and the /analyze       *)
(* handler with its outbound report (app.py).                              *)
(*                                                                         *)
(* Texts are strings; Len, SubSeq and \o act on them as on sequences of    *)
(* characters.  Confidence values are kept in hundredths (0..100), which   *)
(* is exact for score/100 rounded to two decimals.                         *)
(***************************************************************************)
EXTENDS Integers, Sequences, FiniteSets, TLC

(***************************************************************************)
(* Characters and elementary string functions (Python str / re classes).   *)
(***************************************************************************)
Uppers == "ABCDEFGHIJKLMNOPQRSTUVWXYZ"
Lowers == "abcdefghijklmnopqrstuvwxyz"
DigitChars == "0123456789"

Ch(s, i) == SubSeq(s, i, i)

CharsOf(s) == { Ch(s, i) : i \in 1..Len(s) }

\* the character classes \d, [a-zA-Z], [a-zA-Z0-9], \w and \s of the re
\* module, on the ASCII texts of the model
ClsDigit == CharsOf(DigitChars)
ClsUpper == CharsOf(Uppers)
ClsLower == CharsOf(Lowers)
ClsAlpha == ClsUpper \cup ClsLower
ClsAlnum == ClsDigit \cup ClsAlpha
ClsWord == ClsAlnum \cup {"_"}
ClsSpace == {" ", "\t", "\n", "\r"}

IsDigit(c) == c \in ClsDigit
IsWord(c) == c \in ClsWord
IsSpace(c) == c \in ClsSpace

LowerChar(c) ==
    IF c \in ClsUpper
    THEN Ch(Lowers, CHOOSE k \in 1..Len(Uppers) : Ch(Uppers, k) = c)
    ELSE c

UpperChar(c) ==
    IF c \in ClsLower
    THEN Ch(Uppers, CHOOSE k \in 1..Len(Lowers) : Ch(Lowers, k) = c)
    ELSE c

RECURSIVE ToLower(_)
\* str.lower(), character by character (the two halves apart)
ToLower(s) ==
    IF Len(s) = 0 THEN s
    ELSE IF Len(s) = 1 THEN LowerChar(s)
    ELSE ToLower(SubSeq(s, 1, Len(s) \div 2)) \o ToLower(SubSeq(s, Len(s) \div 2 + 1, Len(s)))

\* Python's `kw in s`
Contains(s, kw) ==
    \E i \in 1..(Len(s) - Len(kw) + 1) : SubSeq(s, i, i + Len(kw) - 1) = kw

\* str.startswith
StartsWith(s, p) == Len(s) >= Len(p) /\ SubSeq(s, 1, Len(p)) = p

\* \b of the re module at the gap before position i (1..Len(s)+1)
WordAt(s, i) == i >= 1 /\ i <= Len(s) /\ IsWord(Ch(s, i))
Boundary(s, i) == WordAt(s, i - 1) # WordAt(s, i)

\* len(s.split()): the number of maximal runs of non-space characters
WordCount(s) ==
    Cardinality({ i \in 1..Len(s) :
        ~IsSpace(Ch(s, i)) /\ (i = 1 \/ IsSpace(Ch(s, i - 1))) })

\* s.count(c) for a one-character c
CountChar(s, c) == Cardinality({ i \in 1..Len(s) : Ch(s, i) = c })

\* len(re.sub(r'\D', '', s))
DigitCount(s) == Cardinality({ i \in 1..Len(s) : IsDigit(Ch(s, i)) })

Min(a, b) == IF a <= b THEN a ELSE b

\* list(dict.fromkeys(xs)): drop later duplicates, keep first-seen order
RECURSIVE Dedupe(_)
Dedupe(xs) ==
    IF xs = <<>> THEN <<>>
    ELSE LET front == Dedupe(SubSeq(xs, 1, Len(xs) - 1))
             last  == xs[Len(xs)]
         IN  IF \E k \in 1..Len(front) : front[k] = last
             THEN front ELSE Append(front, last)

Range(xs) == { xs[k] : k \in 1..Len(xs) }

(***************************************************************************)
(* The message texts of the model.                                         *)
(***************************************************************************)
\* message.text of the inbound requests (already stripped)
Benign == "Hi, how are you doing today?"
Borderline == "urgent"
Pressure == "verify now or lose access"
BankScam == "URGENT! Your bank account 1234567890 will be blocked in 24 hours. Click here: http://fake-bank.tk/verify"
Messages == { Benign, Borderline, Pressure, BankScam }

MessageList == << Benign, Borderline, Pressure, BankScam >>

\* str.lower() on the inputs, computed once
RECURSIVE LowerOfEach(_)
LowerOfEach(texts) ==
    IF texts = <<>> THEN << >>
    ELSE (texts[1] :> ToLower(texts[1])) @@ LowerOfEach(Tail(texts))

LowerOf == LowerOfEach(MessageList)

(***************************************************************************)
(* Regular expressions (re.findall with re.IGNORECASE).  A pattern is a    *)
(* sequence of atoms matched left to right by backtracking, as the re      *)
(* module does:                                                            *)
(*   [t |-> "lit", s]            a literal string                          *)
(*   [t |-> "b"]                 \b                                        *)
(*   [t |-> "rep", cls, neg, lo, hi]  a greedy repetition {lo,hi} of a     *)
(*                               character class (neg: the complement;     *)
(*                               hi < 0: no upper limit)                   *)
(*   [t |-> "alt", opts]         an alternation of literals, tried in order*)
(*   [t |-> "open"], [t |-> "close"]  the capturing group's parentheses    *)
(* Every pattern of the two modules has this shape.                        *)
(***************************************************************************)
Lit(str) == [t |-> "lit", s |-> str]
WordBoundary == [t |-> "b"]
Rep(chars, lo, hi) == [t |-> "rep", cls |-> chars, neg |-> FALSE, lo |-> lo, hi |-> hi]
RepNot(chars, lo, hi) == [t |-> "rep", cls |-> chars, neg |-> TRUE, lo |-> lo, hi |-> hi]
Alt(options) == [t |-> "alt", opts |-> options]
GroupOpen == [t |-> "open"]
GroupClose == [t |-> "close"]

\* X+, X* and X? of a character class
Plus(chars) == Rep(chars, 1, -1)
Star(chars) == Rep(chars, 0, -1)
Opt(chars) == Rep(chars, 0, 1)

\* one character against a class, ignoring case
InClass(c, atom) ==
    LET hit == c \in atom.cls \/ LowerChar(c) \in atom.cls \/ UpperChar(c) \in atom.cls
    IN  IF atom.neg THEN ~hit ELSE hit

\* the longest run of class characters from position i, at most hi long
RECURSIVE RunLen(_, _, _, _)
RunLen(s, i, atom, n) ==
    IF (atom.hi < 0 \/ n < atom.hi) /\ i + n <= Len(s) /\ InClass(Ch(s, i + n), atom)
    THEN RunLen(s, i, atom, n + 1) ELSE n

LitAt(s, i, str) ==
    i + Len(str) - 1 <= Len(s)
    /\ ToLower(SubSeq(s, i, i + Len(str) - 1)) = ToLower(str)

NoMatch == [ok |-> FALSE, e |-> 0, gs |-> 0, ge |-> 0]

\* The match of atoms k.. of pattern p at position i that backtracking finds
\* first; gs/ge are the capturing group's bounds so far (0: none).
RECURSIVE MatchFrom(_, _, _, _, _, _)
RECURSIVE TryRep(_, _, _, _, _, _, _)
RECURSIVE TryAlt(_, _, _, _, _, _, _)
MatchFrom(p, k, s, i, gs, ge) ==
    IF k > Len(p) THEN [ok |-> TRUE, e |-> i, gs |-> gs, ge |-> ge]
    ELSE LET a == p[k] IN
      CASE a.t = "lit" ->
             IF LitAt(s, i, a.s) THEN MatchFrom(p, k + 1, s, i + Len(a.s), gs, ge)
             ELSE NoMatch
        [] a.t = "b" ->
             IF Boundary(s, i) THEN MatchFrom(p, k + 1, s, i, gs, ge) ELSE NoMatch
        [] a.t = "rep" -> TryRep(p, k, s, i, gs, ge, RunLen(s, i, a, 0))
        [] a.t = "alt" -> TryAlt(p, k, s, i, gs, ge, 1)
        [] a.t = "open" -> MatchFrom(p, k + 1, s, i, i, ge)
        [] a.t = "close" -> MatchFrom(p, k + 1, s, i, gs, i)

\* greedy: the longest repetition first, then one character less
TryRep(p, k, s, i, gs, ge, n) ==
    IF n < p[k].lo THEN NoMatch
    ELSE LET r == MatchFrom(p, k + 1, s, i + n, gs, ge)
         IN  IF r.ok THEN r ELSE TryRep(p, k, s, i, gs, ge, n - 1)

TryAlt(p, k, s, i, gs, ge, j) ==
    IF j > Len(p[k].opts) THEN NoMatch
    ELSE LET o == p[k].opts[j]
             r == IF LitAt(s, i, o)
                  THEN MatchFrom(p, k + 1, s, i + Len(o), gs, ge) ELSE NoMatch
         IN  IF r.ok THEN r ELSE TryAlt(p, k, s, i, gs, ge, j + 1)

HasGroup(p) == \E k \in 1..Len(p) : p[k].t = "open"

\* re.findall(p, s, re.IGNORECASE): the non-overlapping matches from left to
\* right; the group's text when the pattern has a group, else the whole match
RECURSIVE FindAllFrom(_, _, _)

\* the item of the match r found at position j, then the scan goes on after it
Emit(p, s, j, r) ==
    << IF HasGroup(p) THEN SubSeq(s, r.gs, r.ge - 1) ELSE SubSeq(s, j, r.e - 1) >>
    \o FindAllFrom(p, s, IF r.e > j THEN r.e ELSE j + 1)

\* the leftmost of the positions where the pattern matches
ScanFrom(p, s, starts) ==
    IF starts = {} THEN <<>>
    ELSE LET j == CHOOSE a \in starts : \A b \in starts : a <= b
         IN  Emit(p, s, j, MatchFrom(p, 1, s, j, 0, 0))

FindAllFrom(p, s, i) ==
    ScanFrom(p, s, { j \in i..(Len(s) + 1) : MatchFrom(p, 1, s, j, 0, 0).ok })

FindAll(p, s) == FindAllFrom(p, s, 1)

(***************************************************************************)
(* Scam_detector.py: ScamDetector                                          *)
(***************************************************************************)
critical_keywords == <<
    "urgent", "immediately", "suspended", "blocked", "expire",
    "verify now", "act now", "limited time", "last chance",
    "account locked", "unauthorized", "security alert",
    "confirm identity", "update payment", "verify account" >>

warning_keywords == <<
    "verify", "confirm", "click here", "link", "prize", "won",
    "congratulations", "selected", "winner", "free", "claim",
    "refund", "reward", "bonus", "offer", "discount",
    "bank", "account", "password", "otp", "pin", "cvv",
    "upi", "payment", "transfer", "credit card", "debit card",
    "send money", "send amount", "pay now", "unlock" >>

\* The source spells the rupee sign as the three characters U+00E2 U+201A
\* U+00B9; they are written here as the three ASCII characters #R#, which
\* occur in no other pattern or keyword.
RupeeSign == "#R#"

ClsDashSpace == ClsSpace \cup {"-"}
ClsEmailLocal == ClsAlnum \cup {".", "_", "%", "+", "-"}
ClsEmailDomain == ClsAlnum \cup {".", "-"}
ClsUpiLocal == ClsAlnum \cup {".", "_", "-"}

\* \d{4}[-\s]?\d{4}[-\s]?\d{4}[-\s]?\d{4} between two \b
CardFormat == <<
    WordBoundary, Rep(ClsDigit, 4, 4), Opt(ClsDashSpace), Rep(ClsDigit, 4, 4),
    Opt(ClsDashSpace), Rep(ClsDigit, 4, 4), Opt(ClsDashSpace), Rep(ClsDigit, 4, 4),
    WordBoundary >>

\* \b[a-zA-Z0-9._-]+@[a-zA-Z0-9]+\b
UpiFormat == << WordBoundary, Plus(ClsUpiLocal), Lit("@"), Plus(ClsAlnum), WordBoundary >>

\* suspicious_patterns, each with its name from _pattern_name
suspicious_patterns == <<
    [name |-> "URL",
     re |-> << WordBoundary, Lit("http"), Opt({"s"}), Lit("://"), RepNot(ClsSpace, 1, -1) >>],
    [name |-> "Account/Card number",
     re |-> << WordBoundary, Rep(ClsDigit, 10, 16), WordBoundary >>],
    [name |-> "Card format", re |-> CardFormat],
    [name |-> "Email",
     re |-> << WordBoundary, Plus(ClsEmailLocal), Lit("@"), Plus(ClsEmailDomain),
               Lit("."), Rep(ClsAlpha, 2, -1), WordBoundary >>],
    [name |-> "UPI ID", re |-> UpiFormat],
    [name |-> "Phone number", re |-> << Opt({"+"}), Rep(ClsDigit, 10, 15) >>],
    [name |-> "OTP pattern", re |-> << WordBoundary, Rep(ClsDigit, 6, 6), WordBoundary >>],
    [name |-> "Rupee amount", re |-> << Lit(RupeeSign), Opt(ClsSpace), Plus(ClsDigit) >>],
    [name |-> "Rs amount",
     re |-> << Lit("Rs"), Opt({"."}), Opt(ClsSpace), Plus(ClsDigit) >>] >>

urgency_phrases == <<
    "within 24 hours", "within 48 hours", "today", "right now",
    "expires soon", "limited time", "hurry", "quick", "fast",
    "immediately", "urgent", "asap", "right away" >>

threat_phrases == <<
    "will be blocked", "will be suspended", "will be closed",
    "will be locked", "will expire", "lose access", "lose account",
    "legal action", "penalized", "charged", "fine" >>

payment_phrases == <<
    "send money", "send amount", "send " \o RupeeSign, "send rs",
    "pay now", "payment to", "transfer to", "deposit to",
    "send to upi", "send to account" >>

AnyPhrase(message, phrases) == \E k \in 1..Len(phrases) : Contains(message, phrases[k])

_has_urgency(message) == AnyPhrase(message, urgency_phrases)
_has_threats(message) == AnyPhrase(message, threat_phrases)
_has_payment_request(message) == AnyPhrase(message, payment_phrases)

\* the rule weights of detect_scam
CriticalWeight == 25
WarningWeight == 10
PatternWeight == 15
UrgencyWeight == 20
ThreatWeight == 25
PaymentWeight == 20
ShortWeight == 5
LongWeight == 10
ExclamationWeight == 10
ShortWords == 5
LongWords == 100
ExclamationCount == 3
\* is_scam = confidence >= 0.5, in hundredths
ScamThreshold == 50

\* f"<label>'<keyword>'"
Quoted(label, keyword) == (label \o "'") \o (keyword \o "'")

\* one rule per keyword found, with the weight and the indicator of its list
KeywordRules(found, weight, label) ==
    [k \in 1..Len(found) |-> [w |-> weight, ind |-> Quoted(label, found[k])]]

\* one rule per pattern that matched
PatternRules(matched) ==
    [k \in 1..Len(matched) |->
        [w |-> PatternWeight, ind |-> "Suspicious pattern: " \o matched[k].name]]

\* the word-count rule
LengthRules(word_count) ==
    IF word_count < ShortWords
    THEN << [w |-> ShortWeight, ind |-> "Very short message"] >>
    ELSE IF word_count > LongWords
    THEN << [w |-> LongWeight, ind |-> "Very long message"] >> ELSE <<>>

\* a phrase or punctuation rule
RuleIf(fires, weight, indicator) ==
    IF fires THEN << [w |-> weight, ind |-> indicator] >> ELSE <<>>

\* the rules that fire on the message and its lower-cased form, in
\* evaluation order, each with its weight and its indicator
RulesOn(message, message_lower) ==
    KeywordRules(SelectSeq(critical_keywords, LAMBDA k : Contains(message_lower, k)),
                 CriticalWeight, "Critical keyword: ")
    \o KeywordRules(SelectSeq(warning_keywords, LAMBDA k : Contains(message_lower, k)),
                    WarningWeight, "Warning keyword: ")
    \o PatternRules(SelectSeq(suspicious_patterns, LAMBDA q : FindAll(q.re, message) # <<>>))
    \o RuleIf(_has_urgency(message_lower), UrgencyWeight, "Urgency detected")
    \o RuleIf(_has_threats(message_lower), ThreatWeight, "Threat language detected")
    \o RuleIf(_has_payment_request(message_lower), PaymentWeight, "Payment request detected")
    \o LengthRules(WordCount(message))
    \o RuleIf(CountChar(message, "!") >= ExclamationCount, ExclamationWeight,
              "Multiple exclamation marks")

FiredRules(message) == RulesOn(message, ToLower(message))

RECURSIVE SumWeights(_)
SumWeights(rules) ==
    IF rules = <<>> THEN 0 ELSE rules[1].w + SumWeights(Tail(rules))

\* a verdict that needs more than the threshold: not the program's
VerdictAbove(score, rules) ==
    [is_scam |-> Min(score, 100) > ScamThreshold,
     confidence |-> Min(score, 100),
     indicators |-> [k \in 1..Len(rules) |-> rules[k].ind]]

\* a verdict whose confidence is not capped: not the program's
VerdictUncapped(score, rules) ==
    [is_scam |-> score >= ScamThreshold,
     confidence |-> score,
     indicators |-> [k \in 1..Len(rules) |-> rules[k].ind]]

\* confidence = min(score / 100, 1.0); is_scam = confidence >= 0.5;
\* return is_scam, round(confidence, 2), indicators
Verdict(score, rules) ==
    [is_scam |-> Min(score, 100) >= ScamThreshold,
     confidence |-> Min(score, 100),
     indicators |-> [k \in 1..Len(rules) |-> rules[k].ind]]

ScoreRules(rules) == Verdict(SumWeights(rules), rules)

\* detect_scam(message): (is_scam, confidence, indicators), the confidence
\* in hundredths
detect_scam(message) == ScoreRules(FiredRules(message))

(***************************************************************************)
(* Intelligence_extractor.py: IntelligenceExtractor                        *)
(***************************************************************************)
\* str.strip()
RECURSIVE Strip(_)
Strip(s) ==
    IF s = "" THEN s
    ELSE IF IsSpace(Ch(s, 1)) THEN Strip(SubSeq(s, 2, Len(s)))
    ELSE IF IsSpace(Ch(s, Len(s))) THEN Strip(SubSeq(s, 1, Len(s) - 1))
    ELSE s

ClsColonSpace == ClsSpace \cup {":"}

\* r'\b\w+@<provider>\b'
UpiAt(provider) == << WordBoundary, Plus(ClsWord), Lit("@" \o provider), WordBoundary >>

\* r'<label>[:\s]+(\d+)'
Labelled(label) ==
    << Lit(label), Plus(ClsColonSpace), GroupOpen, Plus(ClsDigit), GroupClose >>

\* self.patterns
bank_account_patterns == <<
    << WordBoundary, Rep(ClsDigit, 9, 18), WordBoundary >>,
    CardFormat,
    Labelled("account"),
    Labelled("A/C"),
    Labelled("acc") >>

upi_id_patterns == <<
    UpiFormat,
    UpiAt("paytm"), UpiAt("ybl"), UpiAt("oksbi"), UpiAt("okaxis"), UpiAt("upi"),
    UpiAt("gpay"), UpiAt("phonepe"), UpiAt("sbi"), UpiAt("hdfc"), UpiAt("icici") >>

phishing_link_patterns == <<
    << Lit("http"), Opt({"s"}), Lit("://"), RepNot(ClsSpace, 1, -1) >>,
    << Lit("www."), RepNot(ClsSpace, 1, -1) >>,
    << WordBoundary, Plus(ClsWord), Lit("."), GroupOpen,
       Alt(<< "tk", "ml", "ga", "cf", "gq", "club", "xyz" >>), GroupClose,
       WordBoundary >> >>

\* phone patterns whose ten-digit pattern may start inside a run: not the
\* program's
phone_patterns_unanchored == <<
    << Opt({"+"}), Rep(ClsDigit, 10, 15) >>,
    << Rep(ClsDigit, 10, 10), WordBoundary >>,
    << WordBoundary, Lit("91"), Rep(ClsDigit, 10, 10), WordBoundary >> >>

phone_number_patterns == <<
    << Opt({"+"}), Rep(ClsDigit, 10, 15) >>,
    << WordBoundary, Rep(ClsDigit, 10, 10), WordBoundary >>,
    << WordBoundary, Lit("91"), Rep(ClsDigit, 10, 10), WordBoundary >> >>

suspicious_keywords == <<
    "urgent", "immediately", "verify", "confirm", "suspended",
    "blocked", "expires", "act now", "click here", "limited time",
    "winner", "prize", "congratulations", "won", "claim",
    "refund", "reward", "bonus", "free", "offer", "update",
    "security alert", "authorize", "approve", "confirm identity" >>

valid_banks == {
    "paytm", "ybl", "oksbi", "okaxis", "upi", "gpay", "phonepe",
    "hdfc", "icici", "sbi", "axis", "airtel", "aubank" }

\* the validators' limits
MinUpiUser == 2
MinUpiBank == 3
MinBankDigits == 9
MaxBankDigits == 18
MinPhoneDigits == 10
MaxPhoneDigits == 15
MinLinkLen == 5
MaxLinkLen == 500

\* re.match(r'^[...]+$', s): one or more class characters up to the end of
\* s, or up to a final newline ($ also matches before it)
MatchesWhole(s, cls) ==
    LET body == IF Len(s) > 1 /\ Ch(s, Len(s)) = "\n" /\ "\n" \notin cls
                THEN SubSeq(s, 1, Len(s) - 1) ELSE s
    IN  Len(body) >= 1 /\ \A k \in 1..Len(body) : Ch(body, k) \in cls

\* _is_valid_upi(text)
_is_valid_upi(text) ==
    /\ CountChar(text, "@") = 1
    /\ LET at == CHOOSE k \in 1..Len(text) : Ch(text, k) = "@"
           username == SubSeq(text, 1, at - 1)
           bank == SubSeq(text, at + 1, Len(text))
       IN  /\ MatchesWhole(username, ClsUpiLocal)
           /\ Len(username) >= MinUpiUser
           /\ \/ ToLower(bank) \in valid_banks
              \/ MatchesWhole(bank, ClsAlnum) /\ Len(bank) >= MinUpiBank

\* _extract_with_pattern(pattern, text): the stripped, non-empty matches
StripEach(found) == [k \in 1..Len(found) |-> Strip(found[k])]

_extract_with_pattern(pattern, text) ==
    SelectSeq(StripEach(FindAll(pattern, text)), LAMBDA m : m # "")

\* the matches of each pattern of a list, concatenated in pattern order
RECURSIVE ExtractAll(_, _)
ExtractAll(patterns, text) ==
    IF patterns = <<>> THEN <<>>
    ELSE _extract_with_pattern(patterns[1], text) \o ExtractAll(Tail(patterns), text)

ValidBank(acc) == MinBankDigits <= DigitCount(acc) /\ DigitCount(acc) <= MaxBankDigits
ValidPhone(m) == MinPhoneDigits <= DigitCount(m) /\ DigitCount(m) <= MaxPhoneDigits
ValidLink(link) ==
    /\ MinLinkLen <= Len(link) /\ Len(link) <= MaxLinkLen
    /\ \/ StartsWith(link, "http://")
       \/ StartsWith(link, "https://")
       \/ StartsWith(link, "www.")

\* a clean-up that keeps every candidate: not the program's
KeepAll(result) == result

\* _clean_results(result)
_clean_results(result) ==
    [bankAccounts |-> SelectSeq(result.bankAccounts, ValidBank),
     upiIds |-> SelectSeq(result.upiIds, _is_valid_upi),
     phishingLinks |-> SelectSeq(result.phishingLinks, ValidLink),
     phoneNumbers |-> SelectSeq(result.phoneNumbers, ValidPhone),
     suspiciousKeywords |-> Dedupe(result.suspiciousKeywords)]

\* extract_from_text(text)
extract_from_text(text) ==
    LET text_lower == ToLower(text)
    IN  _clean_results(
          [bankAccounts |-> Dedupe(ExtractAll(bank_account_patterns, text)),
           upiIds |-> Dedupe(SelectSeq(ExtractAll(upi_id_patterns, text), _is_valid_upi)),
           phishingLinks |-> Dedupe(ExtractAll(phishing_link_patterns, text)),
           phoneNumbers |-> Dedupe(SelectSeq(ExtractAll(phone_number_patterns, text), ValidPhone)),
           suspiciousKeywords |->
               Dedupe(SelectSeq(suspicious_keywords, LAMBDA k : Contains(text_lower, k)))])

(***************************************************************************)
(* Conversation_agent.py: ConversationAgent                                *)
(***************************************************************************)
\* "; ".join(notes)
RECURSIVE Join(_)
Join(notes) ==
    IF notes = <<>> THEN ""
    ELSE IF Len(notes) = 1 THEN notes[1]
    ELSE (notes[1] \o "; ") \o Join(Tail(notes))

\* the words generate_agent_notes looks for in an indicator
note_words == { "urgent", "threat", "url", "link" }

\* every indicator detect_scam can emit
AllIndicators ==
    [k \in 1..Len(critical_keywords) |-> Quoted("Critical keyword: ", critical_keywords[k])]
    \o [k \in 1..Len(warning_keywords) |-> Quoted("Warning keyword: ", warning_keywords[k])]
    \o [k \in 1..Len(suspicious_patterns) |->
            "Suspicious pattern: " \o suspicious_patterns[k].name]
    \o << "Urgency detected", "Threat language detected", "Payment request detected",
          "Very short message", "Very long message", "Multiple exclamation marks" >>

\* word in indicator.lower(), for each indicator and each of the words,
\* computed once
RECURSIVE WordsOfEach(_)
WordsOfEach(indicators) ==
    IF indicators = <<>> THEN << >>
    ELSE (indicators[1] :> { w \in note_words : Contains(ToLower(indicators[1]), w) })
         @@ WordsOfEach(Tail(indicators))

IndicatorWords == WordsOfEach(AllIndicators)

AnyIndicator(scam_indicators, word) ==
    \E k \in 1..Len(scam_indicators) : word \in IndicatorWords[scam_indicators[k]]

\* generate_agent_notes(scam_indicators, intelligence)
generate_agent_notes(scam_indicators, intelligence) ==
    LET notes ==
            (IF AnyIndicator(scam_indicators, "urgent")
             THEN << "Used urgency tactics" >> ELSE <<>>)
         \o (IF AnyIndicator(scam_indicators, "threat")
             THEN << "Made threats about account suspension/blocking" >> ELSE <<>>)
         \o (IF AnyIndicator(scam_indicators, "url") \/ AnyIndicator(scam_indicators, "link")
             THEN << "Included suspicious links" >> ELSE <<>>)
         \o (IF intelligence.bankAccounts # <<>>
             THEN << "Requested bank account information" >> ELSE <<>>)
         \o (IF intelligence.upiIds # <<>>
             THEN << "Attempted UPI payment redirection" >> ELSE <<>>)
         \o (IF intelligence.phishingLinks # <<>>
             THEN << "Shared phishing URLs" >> ELSE <<>>)
         \o (IF intelligence.phoneNumbers # <<>>
             THEN << "Shared contact numbers" >> ELSE <<>>)
    IN  Join(IF notes = <<>> THEN << "Standard scam pattern detected" >> ELSE notes)

\* the last message_count of each reply stage
InitialStage == 2
CuriousStage == 4
ComplianceStage == 7
HesitantStage == 10

asking_keywords == << "account", "number", "upi", "otp", "password" >>

\* generate_response(scammer_message, history, scam_detected, message_count):
\* the template lists random.choice may draw the reply from.  A reply is
\* written as the name of its list: no handler reads a reply's text back.
generate_response(scammer_message, scam_detected, message_count) ==
    IF ~scam_detected THEN { "neutral" }
    ELSE IF message_count <= InitialStage THEN { "initial_responses" }
    ELSE IF message_count <= CuriousStage THEN { "curious_responses" }
    ELSE IF message_count <= ComplianceStage THEN
        IF AnyPhrase(LowerOf[scammer_message], asking_keywords)
        THEN { "information_seeking", "compliance_responses" }
        ELSE { "compliance_responses" }
    ELSE IF message_count <= HesitantStage
    THEN { "hesitant_responses", "information_seeking" }
    ELSE { "stalling_responses", "information_seeking" }

(***************************************************************************)
(* The inputs of the model.                                                *)
(***************************************************************************)
\* message.sender of the inbound requests
Senders == { "scammer" }

\* the session ids the requests may name
AllSessionIds == { "s1", "s2" }

\* the request threads of the threaded server
AllThreads == { 1, 2 }

\* /analyze calls accepted per session id: sequential runs, concurrent runs
MaxTurns == 6
MaxConcurrentTurns == 2

\* the scorer and the extractor on the inputs, computed once
RECURSIVE ScoreOfEach(_)
ScoreOfEach(texts) ==
    IF texts = <<>> THEN << >>
    ELSE (texts[1] :> detect_scam(texts[1])) @@ ScoreOfEach(Tail(texts))

RECURSIVE IntelOfEach(_)
IntelOfEach(texts) ==
    IF texts = <<>> THEN << >>
    ELSE (texts[1] :> extract_from_text(texts[1])) @@ IntelOfEach(Tail(texts))

ScoreOf == ScoreOfEach(MessageList)
IntelOf == IntelOfEach(MessageList)

(***************************************************************************)
(* State.                                                                  *)
(***************************************************************************)
VARIABLES
    sessions,   \* SessionManager.sessions: the session ids in the store, each
                \* with the reference of its dict
    heap,       \* the session dicts, by reference
    pc,         \* each request thread's position in analyze_message
    local,      \* each request thread's local variables
    reports,    \* the payloads POSTed to the callback URL, in order
    delivery,   \* how the latest POST ended
    received,   \* per session id, the texts of the /analyze calls accepted so
                \* far, in order of arrival
    workload,   \* the environment of the run: the ids and threads in use
                \* and the number of calls per id
    response,   \* the HTTP response returned last: its status code and its
                \* agentResponse
    probe,      \* in the runs of a single function: its input and what it
                \* returned
    utcnow      \* datetime.utcnow(), in hours since the start of the run

vars == << sessions, heap, pc, local, reports, delivery, received, workload, response, probe,
          utcnow >>

Refs == 1..(Cardinality(AllSessionIds) + Cardinality(AllThreads))

IntelKeys == << "bankAccounts", "upiIds", "phishingLinks", "phoneNumbers", "suspiciousKeywords" >>

\* the dict get_or_create_session stores for a new id
NewSession(session_id) ==
    [session_id |-> session_id,
     message_count |-> 0,
     scam_detected |-> FALSE,
     scam_confidence |-> 0,
     scam_indicators |-> <<>>,
     conversation |-> <<>>,
     intelligence |-> [bankAccounts |-> <<>>, upiIds |-> <<>>, phishingLinks |-> <<>>,
                       phoneNumbers |-> <<>>, suspiciousKeywords |-> <<>>],
     agent_notes |-> "",
     finalized |-> FALSE]

\* the references no session id and no thread holds
FreeRefs == Refs \ DOMAIN heap
\* one dict for every session id: not the program's
SharedRef == CHOOSE r \in Refs : \A q \in Refs : r <= q

NewRef == CHOOSE r \in FreeRefs : \A q \in FreeRefs : r <= q

\* requests.post(...) in send_final_result_to_guvi: a 200/201/202 status,
\* another status, requests.exceptions.Timeout, any other exception
Deliveries == { "accepted", "refused", "timeout", "exception" }

\* the return value of send_final_result_to_guvi after a POST
DeliveryResult(d) == d = "accepted"

(***************************************************************************)
(* app.py: analyze_message, statement by statement, on a session dict.     *)
(***************************************************************************)
\* scoring is attempted on the first messages only
ScoringWindow == 5
\* detection needs confidence > 0.5, in hundredths
DetectAbove == 50
\* the callback is sent from this message_count on
ReportFrom == 3

\* a count that stops once the session is detected: not the program's
CountUndetected(d) == IF d.scam_detected THEN d ELSE [d EXCEPT !.message_count = @ + 1]

\* session_data['message_count'] += 1
CountMessage(d) == [d EXCEPT !.message_count = @ + 1]

\* session_data['conversation'].append({...})
LogMessage(d, sender, text) ==
    [d EXCEPT !.conversation = Append(@, [sender |-> sender, text |-> text])]

\* a guard that scores detected sessions too: not the program's
ScoringDueEveryTurn(d) == d.message_count <= ScoringWindow

\* a guard without the message window: not the program's
ScoringDueUndetected(d) == ~d.scam_detected

\* the guard of the SCAM DETECTION block
ScoringDue(d) == d.message_count <= ScoringWindow /\ ~d.scam_detected

\* the guard on the scorer's result
Detected(r) == r.is_scam /\ r.confidence > DetectAbove

\* the three assignments under that guard
RecordDetection(d, r) ==
    [d EXCEPT !.scam_detected = TRUE,
              !.scam_confidence = r.confidence,
              !.scam_indicators = r.indicators]

\* a block that assigns the verdict of every scored message: not the program's
DetectWithVerdict(d, r) ==
    IF d.message_count <= ScoringWindow
    THEN [d EXCEPT !.scam_detected = Detected(r),
                   !.scam_confidence = r.confidence,
                   !.scam_indicators = r.indicators]
    ELSE d

\* the SCAM DETECTION block, r the scorer's result for the message
DetectWith(d, r) == IF ScoringDue(d) /\ Detected(r) THEN RecordDetection(d, r) ELSE d

DetectScam(d, text) == DetectWith(d, ScoreOf[text])

\* a block that assigns the extractor's lists instead of extending: not the
\* program's
ReplaceIntelligence(d, intel) ==
    [d EXCEPT !.intelligence = [key \in DOMAIN @ |-> intel[key]]]

\* session_data['intelligence'][key].extend(intelligence[key]) for each key
ExtendIntelligence(d, intel) ==
    [d EXCEPT !.intelligence = [key \in DOMAIN @ |-> @[key] \o intel[key]]]

\* session_data['intelligence'][key] = list(dict.fromkeys(...)) for each key
DedupeIntelligence(d) ==
    [d EXCEPT !.intelligence = [key \in DOMAIN @ |-> Dedupe(@[key])]]

\* the replies the AGENT RESPONSE GENERATION block may produce
AgentResponses(d, text) == generate_response(text, d.scam_detected, d.message_count)

\* a reply that takes the place of the last entry: not the program's
ReplaceLastEntry(d, agent_response) ==
    [d EXCEPT !.conversation =
        Append(SubSeq(@, 1, Len(@) - 1), [sender |-> "user", text |-> agent_response])]

\* session_data['conversation'].append({'sender': 'user', ...})
LogReply(d, agent_response) == LogMessage(d, "user", agent_response)

\* the AGENT NOTES block
WriteNotes(d) ==
    IF d.scam_detected
    THEN [d EXCEPT !.agent_notes = generate_agent_notes(d.scam_indicators, d.intelligence)]
    ELSE d

\* a guard without the message count: not the program's
SendsWhenDetected(d) == d.scam_detected

\* the guard of "Send GUVI callback" and the early return of
\* send_final_result_to_guvi: whether a POST is made
SendsReport(d) == (d.scam_detected /\ d.message_count >= ReportFrom) /\ d.scam_detected

\* the payload of send_final_result_to_guvi
Payload(session_id, d) ==
    [sessionId |-> session_id,
     scamDetected |-> d.scam_detected,
     totalMessagesExchanged |-> d.message_count,
     extractedIntelligence |-> d.intelligence,
     agentNotes |-> d.agent_notes]

\* the session dict when the reply is generated: the message counted and
\* logged, SCAM DETECTION and INTELLIGENCE EXTRACTION done
BeforeReply(d, sender, text) ==
    DedupeIntelligence(
        ExtendIntelligence(DetectScam(LogMessage(CountMessage(d), sender, text), text),
                           IntelOf[text]))

\* the session dict handed to update_session: the reply logged, AGENT NOTES done
AfterReply(d, agent_response) == WriteNotes(LogReply(d, agent_response))

(***************************************************************************)
(* Sequential runs: one request at a time, each handled to its end.        *)
(***************************************************************************)
IdleLocal == [sid |-> "", sender |-> "", text |-> "", ref |-> 0, missing |-> FALSE,
              count |-> 0, score |-> <<>>, key |-> 0, list |-> <<>>, reply |-> ""]

\* no function is run on its own
NoProbe == [input |-> <<>>, output |-> <<>>]

\* no request has been answered yet
NoResponse == [status |-> 0, agentResponse |-> ""]

\* a response that fails when the delivery failed: not the program's
RespondByDelivery(result, agent_response) ==
    IF result \in {"none", "accepted"}
    THEN [status |-> 200, agentResponse |-> agent_response]
    ELSE [status |-> 500, agentResponse |-> ""]

\* return jsonify(response_data), 200: what send_final_result_to_guvi returned
\* is not looked at
Respond(result, agent_response) == [status |-> 200, agentResponse |-> agent_response]

InitWith(w) ==
    /\ workload = w
    /\ sessions = << >>
    /\ heap = << >>
    /\ pc = [t \in AllThreads |-> "idle"]
    /\ local = [t \in AllThreads |-> IdleLocal]
    /\ reports = <<>>
    /\ delivery = "none"
    /\ received = [id \in AllSessionIds |-> <<>>]
    /\ response = NoResponse
    /\ probe = NoProbe
    /\ utcnow = 0

Init == InitWith([ids |-> {"s1"}, threads |-> {}, turns |-> MaxTurns])

Quiet == \A t \in AllThreads : pc[t] = "idle"

\* update_session, then "Send GUVI callback"
Commit(session_id, ref, after) ==
    /\ heap' = (ref :> after) @@ heap
    /\ sessions' = (session_id :> ref) @@ sessions
    /\ IF SendsReport(after)
       THEN /\ reports' = Append(reports, Payload(session_id, after))
            /\ delivery' \in Deliveries
       ELSE /\ UNCHANGED reports
            /\ delivery' = "none"

\* the reply is drawn and logged, the notes written, the session stored
Finish(session_id, ref, d, text) ==
    \E agent_response \in AgentResponses(d, text) :
        /\ Commit(session_id, ref, AfterReply(d, agent_response))
        /\ response' = Respond(delivery', agent_response)

\* the handler on the dict get_or_create_session returned
Handle(session_id, ref, d, sender, text) ==
    Finish(session_id, ref, BeforeReply(d, sender, text), text)

\* analyze_message, handled without interleaving
Turn(session_id, sender, text) ==
    /\ Quiet
    /\ Len(received[session_id]) < workload.turns
    /\ IF session_id \in DOMAIN sessions
       THEN Handle(session_id, sessions[session_id], heap[sessions[session_id]], sender, text)
       ELSE Handle(session_id, NewRef, NewSession(session_id), sender, text)
    /\ received' = [received EXCEPT ![session_id] = Append(@, text)]
    /\ UNCHANGED << pc, local, workload, utcnow >>

\* POST /analyze, valid request
Analyze(session_id, sender, text) ==
    /\ Turn(session_id, sender, text)
    /\ UNCHANGED probe

\* SessionManager.delete_session(session_id), when it returns True
DeleteSession(session_id) ==
    /\ Quiet
    /\ session_id \in DOMAIN sessions
    /\ sessions' = [id \in DOMAIN sessions \ {session_id} |-> sessions[id]]
    /\ heap' = [r \in DOMAIN heap \ {sessions[session_id]} |-> heap[r]]
    /\ UNCHANGED << pc, local, reports, delivery, received, workload, utcnow, response, probe >>

Next ==
    \/ \E session_id \in workload.ids, sender \in Senders, text \in Messages :
            Analyze(session_id, sender, text)
    \/ \E session_id \in workload.ids : DeleteSession(session_id)

Spec == Init /\ [][Next]_vars

\* the same, with calls for two session ids
MaxIsolationTurns == 2

InitIsolation == InitWith([ids |-> AllSessionIds, threads |-> {}, turns |-> MaxIsolationTurns])

SpecIsolation == InitIsolation /\ [][Next]_vars

(***************************************************************************)
(* Concurrent runs: the threaded server runs analyze_message in one thread *)
(* per request, all on the one SessionManager.  A thread's steps are the   *)
(* handler's statements that read or write the shared store or a shared    *)
(* session dict; a read-modify-write statement is a read step and a write  *)
(* step.                                                                   *)
(***************************************************************************)
InitConcurrent ==
    InitWith([ids |-> {"s1"}, threads |-> AllThreads, turns |-> MaxConcurrentTurns])

\* the dicts some session id or some thread still refers to
Collect(h, store, loc) ==
    LET held == { store[id] : id \in DOMAIN store } \cup { loc[t].ref : t \in AllThreads }
    IN  [r \in DOMAIN h \cap held |-> h[r]]

Goto(t, label) == pc' = [pc EXCEPT ![t] = label]

\* the request arrives: data.get('sessionId'), message.get('text'), ...
Receive(t, session_id, sender, text) ==
    /\ pc[t] = "idle"
    /\ Len(received[session_id]) < workload.turns
    /\ received' = [received EXCEPT ![session_id] = Append(@, text)]
    /\ local' = [local EXCEPT ![t] =
                    [IdleLocal EXCEPT !.sid = session_id, !.sender = sender, !.text = text]]
    /\ Goto(t, "get_check")
    /\ UNCHANGED << sessions, heap, reports, delivery, workload, utcnow, response, probe >>

\* get_or_create_session: if session_id not in self.sessions
GetCheck(t) ==
    /\ pc[t] = "get_check"
    /\ local' = [local EXCEPT ![t].missing = local[t].sid \notin DOMAIN sessions]
    /\ Goto(t, IF local[t].sid \notin DOMAIN sessions THEN "get_create" ELSE "get_fetch")
    /\ UNCHANGED << sessions, heap, reports, delivery, received, workload, utcnow, response, probe >>

\* get_or_create_session: self.sessions[session_id] = {...}
GetCreate(t) ==
    /\ pc[t] = "get_create"
    /\ LET ref == NewRef
           store == (local[t].sid :> ref) @@ sessions
       IN  /\ sessions' = store
           /\ heap' = Collect((ref :> NewSession(local[t].sid)) @@ heap, store, local)
    /\ Goto(t, "get_fetch")
    /\ UNCHANGED << local, reports, delivery, received, workload, utcnow, response, probe >>

\* get_or_create_session: return self.sessions[session_id]
GetFetch(t) ==
    /\ pc[t] = "get_fetch"
    /\ local[t].sid \in DOMAIN sessions
    /\ local' = [local EXCEPT ![t].ref = sessions[local[t].sid]]
    /\ Goto(t, "count_read")
    /\ UNCHANGED << sessions, heap, reports, delivery, received, workload, utcnow, response, probe >>

\* a step of thread t that rewrites its session dict
Rewrite(t, from, to, d) ==
    /\ pc[t] = from
    /\ heap' = [heap EXCEPT ![local[t].ref] = d]
    /\ Goto(t, to)
    /\ UNCHANGED << sessions, reports, delivery, received, workload, utcnow, response, probe >>

\* session_data['message_count'] += 1: the read
CountRead(t) ==
    /\ pc[t] = "count_read"
    /\ local' = [local EXCEPT ![t].count = heap[local[t].ref].message_count]
    /\ Goto(t, "count_write")
    /\ UNCHANGED << sessions, heap, reports, delivery, received, workload, utcnow, response, probe >>

\* session_data['message_count'] += 1: the write
CountWrite(t) ==
    /\ Rewrite(t, "count_write", "log_message",
               [heap[local[t].ref] EXCEPT !.message_count = local[t].count + 1])
    /\ UNCHANGED local

LogInbound(t) ==
    /\ Rewrite(t, "log_message", "detect_check",
               LogMessage(heap[local[t].ref], local[t].sender, local[t].text))
    /\ UNCHANGED local

\* whether the SCAM DETECTION block assigns, r the scorer's result
DetectBranch(t, r, assigns) ==
    /\ local' = [local EXCEPT ![t].score = IF assigns THEN r ELSE <<>>]
    /\ Goto(t, IF assigns THEN "detect_write" ELSE "extend")

DetectOn(t, r) == DetectBranch(t, r, ScoringDue(heap[local[t].ref]) /\ Detected(r))

\* the guards of the SCAM DETECTION block and the scorer's call
DetectCheck(t) ==
    /\ pc[t] = "detect_check"
    /\ DetectOn(t, ScoreOf[local[t].text])
    /\ UNCHANGED << sessions, heap, reports, delivery, received, workload, utcnow, response, probe >>

\* the assignments of the SCAM DETECTION block
DetectWrite(t) ==
    /\ Rewrite(t, "detect_write", "extend",
               RecordDetection(heap[local[t].ref], local[t].score))
    /\ local' = [local EXCEPT ![t].score = <<>>]

Extend(t) ==
    /\ Rewrite(t, "extend", "dedupe_read",
               ExtendIntelligence(heap[local[t].ref], IntelOf[local[t].text]))
    /\ local' = [local EXCEPT ![t].key = 1]

\* list(dict.fromkeys(session_data['intelligence'][key]))
DedupeRead(t) ==
    /\ pc[t] = "dedupe_read"
    /\ local' = [local EXCEPT ![t].list =
                    Dedupe(heap[local[t].ref].intelligence[IntelKeys[local[t].key]])]
    /\ Goto(t, "dedupe_write")
    /\ UNCHANGED << sessions, heap, reports, delivery, received, workload, utcnow, response, probe >>

\* session_data['intelligence'][key] = <that list>
DedupeWrite(t) ==
    /\ Rewrite(t, "dedupe_write",
               IF local[t].key = Len(IntelKeys) THEN "reply" ELSE "dedupe_read",
               [heap[local[t].ref] EXCEPT
                    !.intelligence[IntelKeys[local[t].key]] = local[t].list])
    /\ local' = [local EXCEPT ![t].list = <<>>,
                              ![t].key = IF @ = Len(IntelKeys) THEN 0 ELSE @ + 1]

Reply(t) ==
    /\ pc[t] = "reply"
    /\ \E agent_response \in AgentResponses(heap[local[t].ref], local[t].text) :
          /\ Rewrite(t, "reply", "notes", LogReply(heap[local[t].ref], agent_response))
          /\ local' = [local EXCEPT ![t].reply = agent_response]

Notes(t) ==
    /\ Rewrite(t, "notes", "update", WriteNotes(heap[local[t].ref]))
    /\ UNCHANGED local

\* session_manager.update_session(session_id, session_data)
UpdateSession(t) ==
    /\ pc[t] = "update"
    /\ LET store == (local[t].sid :> local[t].ref) @@ sessions
       IN  /\ sessions' = store
           /\ heap' = Collect(heap, store, local)
    /\ Goto(t, "report")
    /\ UNCHANGED << local, reports, delivery, received, workload, utcnow, response, probe >>

\* "Send GUVI callback", then the response is returned
Report(t) ==
    /\ pc[t] = "report"
    /\ IF SendsReport(heap[local[t].ref])
       THEN /\ reports' = Append(reports, Payload(local[t].sid, heap[local[t].ref]))
            /\ delivery' \in Deliveries
       ELSE /\ UNCHANGED reports
            /\ delivery' = "none"
    /\ response' = Respond(delivery', local[t].reply)
    /\ local' = [local EXCEPT ![t] = IdleLocal]
    /\ heap' = Collect(heap, sessions, [local EXCEPT ![t] = IdleLocal])
    /\ Goto(t, "idle")
    /\ UNCHANGED << sessions, received, workload, utcnow, probe >>

NextConcurrent ==
    \/ \E t \in workload.threads, session_id \in workload.ids, sender \in Senders, text \in Messages :
          Receive(t, session_id, sender, text)
    \/ \E t \in workload.threads : GetCheck(t)
    \/ \E t \in workload.threads : GetCreate(t)
    \/ \E t \in workload.threads : GetFetch(t)
    \/ \E t \in workload.threads : CountRead(t)
    \/ \E t \in workload.threads : CountWrite(t)
    \/ \E t \in workload.threads : LogInbound(t)
    \/ \E t \in workload.threads : DetectCheck(t)
    \/ \E t \in workload.threads : DetectWrite(t)
    \/ \E t \in workload.threads : Extend(t)
    \/ \E t \in workload.threads : DedupeRead(t)
    \/ \E t \in workload.threads : DedupeWrite(t)
    \/ \E t \in workload.threads : Reply(t)
    \/ \E t \in workload.threads : Notes(t)
    \/ \E t \in workload.threads : UpdateSession(t)
    \/ \E t \in workload.threads : Report(t)

SpecConcurrent == InitConcurrent /\ [][NextConcurrent]_vars

(***************************************************************************)
(* Runs of the scorer alone: detect_scam on the messages made of up to     *)
(* MaxWords words of a vocabulary, one word added per step.                *)
(***************************************************************************)
ScorerWords == << "urgent", "fine", "prize", "free", "123456", "hello", "immediately!!!" >>

MaxWords == 3

\* the words joined by single spaces
RECURSIVE JoinWords(_)
JoinWords(words) ==
    IF words = <<>> THEN ""
    ELSE IF Len(words) = 1 THEN words[1]
    ELSE (words[1] \o " ") \o JoinWords(Tail(words))

\* the call detect_scam(message), with the total weight of the rules that
\* fire on the message
ScoreCall(words, message) ==
    [input |-> words,
     output |-> [score |-> SumWeights(FiredRules(message)), result |-> detect_scam(message)]]

ScoreMessage(words) == ScoreCall(words, JoinWords(words))

AddWord(vocabulary, limit, call(_)) ==
    /\ "again" \notin DOMAIN probe
    /\ Len(probe.input) < limit
    /\ \E k \in 1..Len(vocabulary) : probe' = call(Append(probe.input, vocabulary[k]))
    /\ UNCHANGED << sessions, heap, pc, local, reports, delivery, received, workload, utcnow, response >>

InitScorer == InitWith([ids |-> {}, threads |-> {}, turns |-> 0])

NextScorer == AddWord(ScorerWords, MaxWords, ScoreMessage)

SpecScorer == InitScorer /\ [][NextScorer]_vars

(***************************************************************************)
(* Runs of the extractor alone: extract_from_text on the texts made of up  *)
(* to MaxTokens tokens, one token added per step.                          *)
(***************************************************************************)
Run8 == "12345678"
Run9 == "123456789"
Run18 == "123456789012345678"
Run19 == "1234567890123456789"

ExtractorTokens ==
    << "account:", Run8, Run9, Run18, Run19,
       "pay@paytm", "p@paytm", "a.bc@xyz",
       "www.a.tk", "http://b.xyz", "a.tk", "+919876543210" >>

MaxTokens == 2

\* the call extract_from_text(text)
ExtractCall(tokens, text) == [input |-> tokens, output |-> extract_from_text(text)]

ExtractText(tokens) == ExtractCall(tokens, JoinWords(tokens))

InitExtractor == InitWith([ids |-> {}, threads |-> {}, turns |-> 1])

\* the call extract_from_text(value) on a value the first call returned in
\* the field, and what it returns in that field
ExtractAgainCall(call, field, value) ==
    [input |-> call.input, output |-> call.output,
     field |-> field, value |-> value, again |-> extract_from_text(value)[field]]

ExtractAgain ==
    /\ probe.input # <<>>
    /\ \E field \in {"bankAccounts", "phoneNumbers", "upiIds"} :
          \E k \in 1..Len(probe.output[field]) :
              probe' = ExtractAgainCall(probe, field, probe.output[field][k])
    /\ UNCHANGED << sessions, heap, pc, local, reports, delivery, received, workload, utcnow, response >>

NextExtractor ==
    \/ AddWord(ExtractorTokens, MaxTokens, ExtractText)
    \/ ExtractAgain

SpecExtractor == InitExtractor /\ [][NextExtractor]_vars

(***************************************************************************)
(* Runs of the payment-handle check alone: _is_valid_upi on the candidates *)
(* made of up to MaxParts parts, one part added per step.                  *)
(***************************************************************************)
CandidateParts ==
    << "p", "pay", "a.b-c_d", "p y", "@", "@paytm", "@PayTM", "@xy", "@xyz", "@x-z",
       "#", "\n" >>

MaxParts == 3

\* the parts put together
RECURSIVE Concat(_)
Concat(parts) == IF parts = <<>> THEN "" ELSE parts[1] \o Concat(Tail(parts))

\* the call _is_valid_upi(text)
ValidateCall(parts, text) ==
    [input |-> parts, output |-> [text |-> text, accepted |-> _is_valid_upi(text)]]

ValidateCandidate(parts) == ValidateCall(parts, Concat(parts))

InitValidator == InitWith([ids |-> {}, threads |-> {}, turns |-> 2])

NextValidator == AddWord(CandidateParts, MaxParts, ValidateCandidate)

SpecValidator == InitValidator /\ [][NextValidator]_vars

(***************************************************************************)
(* app.py: the request gate of POST /analyze and the read-only routes.     *)
(* A request is its content type, its x-api-key header and its body: not   *)
(* JSON, an empty JSON object, or an object with some of the fields        *)
(* sessionId and message, the message carrying a text.                     *)
(***************************************************************************)
MaxServiceTurns == 3

API_KEY == "hackathon-api-key-2026"

MaxTextLength == 5000

\* s repeated n times
RECURSIVE Repeat(_, _)
Repeat(s, n) ==
    IF n = 0 THEN ""
    ELSE IF n % 2 = 1 THEN s \o Repeat(s, n - 1)
    ELSE Repeat(s \o s, n \div 2)

\* a text one character over the limit
LongText == Repeat("a", MaxTextLength + 1)

ContentTypes == { "application/json", "text/plain" }
ApiKeys == { API_KEY, "", "wrong-key" }
RequestTexts == { "", "   ", Pressure, BankScam, LongText }

Requests ==
    { req \in [op : {"analyze"}, content_type : ContentTypes, api_key : ApiKeys,
               json : {"malformed", "empty", "object"},
               fields : SUBSET {"sessionId", "message"},
               sessionId : {"s1"}, text : RequestTexts] :
        /\ req.json # "object" => req.fields = {}
        /\ req.fields # {"sessionId", "message"} => req.text = "" }

\* verify_api_key with everything let through
verify_any_key(provided_key) == TRUE

\* verify_api_key()
verify_api_key(provided_key) ==
    /\ Strip(provided_key) # ""
    /\ Strip(provided_key) = API_KEY

\* validate_request: the status it answers with, 0 when it calls the handler
validate_request(req) ==
    IF req.content_type # "application/json" THEN 400
    ELSE IF ~ verify_api_key(req.api_key) THEN 401
    ELSE IF req.json = "malformed" THEN 400
    ELSE IF req.json = "empty" THEN 400
    ELSE IF "sessionId" \notin req.fields \/ "message" \notin req.fields THEN 400
    ELSE IF Strip(req.text) = "" THEN 400
    ELSE IF Len(Strip(req.text)) > MaxTextLength THEN 400
    ELSE 0

\* the error answer of a route
Refuse(status) == [status |-> status, agentResponse |-> ""]

\* POST /analyze through the validate_request decorator
Request(req) ==
    IF validate_request(req) = 0
    THEN /\ Turn(req.sessionId, "scammer", Strip(req.text))
         /\ probe' = [input |-> req, output |-> 200]
    ELSE /\ response' = Refuse(validate_request(req))
         /\ probe' = [input |-> req, output |-> validate_request(req)]
         /\ UNCHANGED << sessions, heap, pc, local, reports, delivery, received, workload, utcnow >>

None == "None"

\* SessionManager.get_session(session_id): the dict of the session
get_session(session_id) ==
    IF session_id \in DOMAIN sessions THEN heap[sessions[session_id]] ELSE None

\* SessionManager.list_sessions()
Summary(session_id) ==
    [session_id |-> session_id,
     message_count |-> heap[sessions[session_id]].message_count,
     scam_detected |-> heap[sessions[session_id]].scam_detected,
     finalized |-> heap[sessions[session_id]].finalized]

list_sessions == { Summary(session_id) : session_id \in DOMAIN sessions }

\* the sum of message_count over the sessions of ids
RECURSIVE SumMessages(_)
SumMessages(ids) ==
    IF ids = {} THEN 0
    ELSE LET id == CHOOSE x \in ids : TRUE
         IN  heap[sessions[id]].message_count + SumMessages(ids \ {id})

\* round(total / n, 2), in hundredths
Average(total, n) == IF n > 0 THEN (2 * 100 * total + n) \div (2 * n) ELSE 0

\* SessionManager.get_statistics()
get_statistics ==
    [total_sessions |-> Cardinality(DOMAIN sessions),
     scam_detected |-> Cardinality({ id \in DOMAIN sessions : heap[sessions[id]].scam_detected }),
     finalized_sessions |-> Cardinality({ id \in DOMAIN sessions : heap[sessions[id]].finalized }),
     total_messages |-> SumMessages(DOMAIN sessions),
     avg_messages_per_session |-> Average(SumMessages(DOMAIN sessions), Cardinality(DOMAIN sessions))]

\* SessionManager.export_session(session_id): the session as text
export_session(session_id) ==
    IF session_id \in DOMAIN sessions THEN ToString(get_session(session_id)) ELSE None

\* a call that reads the store: nothing is assigned
Read(input, output) ==
    /\ probe' = [input |-> input, output |-> output]
    /\ UNCHANGED << sessions, heap, pc, local, reports, delivery, received, workload, utcnow, response >>

\* a lookup that creates the session it does not find, as get_or_create_session does
GetOrCreateSession(session_id) ==
    /\ probe' = [input |-> [op |-> "get_session", session_id |-> session_id],
                 output |-> get_session(session_id)]
    /\ IF session_id \in DOMAIN sessions
       THEN UNCHANGED << sessions, heap >>
       ELSE /\ heap' = (NewRef :> NewSession(session_id)) @@ heap
            /\ sessions' = (session_id :> NewRef) @@ sessions
    /\ UNCHANGED << pc, local, reports, delivery, received, workload, utcnow, response >>

GetSession(session_id) ==
    Read([op |-> "get_session", session_id |-> session_id], get_session(session_id))

ExportSession(session_id) ==
    Read([op |-> "export_session", session_id |-> session_id], export_session(session_id))

ListSessions == Read([op |-> "list_sessions"], list_sessions)

GetStatistics == Read([op |-> "get_statistics"], get_statistics)

\* GET /sessions
GetSessions(provided_key) ==
    /\ probe' = [input |-> [op |-> "sessions", api_key |-> provided_key],
                 output |-> IF verify_api_key(provided_key)
                            THEN [sessions |-> list_sessions, statistics |-> get_statistics]
                            ELSE None]
    /\ response' = Refuse(IF verify_api_key(provided_key) THEN 200 ELSE 401)
    /\ UNCHANGED << sessions, heap, pc, local, reports, delivery, received, workload, utcnow >>

InitService == InitWith([ids |-> {"s1"}, threads |-> {}, turns |-> MaxServiceTurns])

NextService ==
    \/ \E req \in Requests : Request(req)
    \/ \E session_id \in workload.ids : GetSession(session_id)
    \/ \E session_id \in workload.ids : ExportSession(session_id)
    \/ ListSessions
    \/ GetStatistics
    \/ \E provided_key \in ApiKeys : GetSessions(provided_key)

SpecService == InitService /\ [][NextService]_vars

(***************************************************************************)
(* Session_manager.py: delete_session and the del of cleanup_old_sessions  *)
(* run by another thread while a request thread handles /analyze.          *)
(***************************************************************************)
InitEviction == InitWith([ids |-> {"s1"}, threads |-> {1}, turns |-> MaxConcurrentTurns])

\* del self.sessions[session_id]
Evict(session_id) ==
    /\ session_id \in DOMAIN sessions
    /\ LET store == [id \in DOMAIN sessions \ {session_id} |-> sessions[id]]
       IN  /\ sessions' = store
           /\ heap' = Collect(heap, store, local)
    /\ UNCHANGED << pc, local, reports, delivery, received, workload, utcnow, response, probe >>

\* get_or_create_session: return self.sessions[session_id] raises KeyError,
\* analyze_message answers 500
FetchRaises(t) ==
    /\ pc[t] = "get_fetch"
    /\ local[t].sid \notin DOMAIN sessions
    /\ response' = Refuse(500)
    /\ local' = [local EXCEPT ![t] = IdleLocal]
    /\ Goto(t, "idle")
    /\ UNCHANGED << sessions, heap, reports, delivery, received, workload, utcnow, probe >>

NextEviction ==
    \/ NextConcurrent
    \/ \E t \in workload.threads : FetchRaises(t)
    \/ \E session_id \in workload.ids : Evict(session_id)

SpecEviction == InitEviction /\ [][NextEviction]_vars

(***************************************************************************)
(* Session_manager.py: the SessionManager on its own, with the clock.      *)
(* Here a session dict carries its start_time and last_activity, the text  *)
(* datetime.isoformat() gives; the clock counts hours.                     *)
(***************************************************************************)
MaxManagerTurns == 1

\* the instants at which something happens, in hours
Instants == { 0, 1, 24, 25 }

\* max_age_hours: int = 24
DefaultMaxAge == 24
MaxAges == { 1, DefaultMaxAge }

\* datetime.isoformat(): the instant as text
isoformat(time) == ToString(time)

\* datetime.fromisoformat(text): the instant the text denotes
RECURSIVE fromisoformat(_)
fromisoformat(text) ==
    IF text = "" THEN 0
    ELSE fromisoformat(SubSeq(text, 1, Len(text) - 1)) * 10
         + (CHOOSE d \in 0..9 : ToString(d) = Ch(text, Len(text)))

\* the dict get_or_create_session stores for a new id
NewSessionAt(session_id, time) ==
    [start_time |-> isoformat(time), last_activity |-> isoformat(time)]
    @@ NewSession(session_id)

\* a call of a method of the SessionManager and what it returned
Call(input, output) ==
    /\ probe' = [input |-> input, output |-> output]
    /\ UNCHANGED << pc, local, reports, delivery, received, workload, response >>

\* a lookup that stores a new dict whether or not the id is known: not the
\* program's
CreateAnew(session_id) ==
    /\ heap' = (IF session_id \in DOMAIN sessions THEN sessions[session_id] ELSE NewRef)
               :> NewSessionAt(session_id, utcnow) @@ heap
    /\ sessions' = (session_id :> (IF session_id \in DOMAIN sessions
                                   THEN sessions[session_id] ELSE NewRef)) @@ sessions
    /\ Call([op |-> "get_or_create_session", session_id |-> session_id],
            heap'[sessions'[session_id]])
    /\ UNCHANGED utcnow

\* SessionManager.get_or_create_session(session_id)
GetOrCreate(session_id) ==
    /\ IF session_id \notin DOMAIN sessions
       THEN /\ heap' = (NewRef :> NewSessionAt(session_id, utcnow)) @@ heap
            /\ sessions' = (session_id :> NewRef) @@ sessions
       ELSE UNCHANGED << sessions, heap >>
    /\ Call([op |-> "get_or_create_session", session_id |-> session_id],
            heap'[sessions'[session_id]])
    /\ UNCHANGED utcnow

\* analyze_message at work on the dict of a stored session
Use(session_id, text) ==
    /\ session_id \in DOMAIN sessions
    /\ heap[sessions[session_id]].message_count < workload.turns
    /\ heap' = [heap EXCEPT ![sessions[session_id]] =
                   [BeforeReply(@, "scammer", text) EXCEPT !.last_activity = isoformat(utcnow)]]
    /\ Call([op |-> "analyze_message", session_id |-> session_id, text |-> text], None)
    /\ UNCHANGED << sessions, utcnow >>

\* a test that also holds at the very age: not the program's
ExpiredFrom(age, max_age_hours) == age >= max_age_hours

\* age > timedelta(hours=max_age_hours)
Expired(age, max_age_hours) == age > max_age_hours

\* the ids cleanup_old_sessions collects in to_delete
to_delete(max_age_hours) ==
    { session_id \in DOMAIN sessions :
        Expired(utcnow - fromisoformat(heap[sessions[session_id]].start_time), max_age_hours) }

\* SessionManager.cleanup_old_sessions(max_age_hours)
Cleanup(max_age_hours) ==
    /\ sessions' = [id \in DOMAIN sessions \ to_delete(max_age_hours) |-> sessions[id]]
    /\ heap' = [r \in { sessions'[id] : id \in DOMAIN sessions' } |-> heap[r]]
    /\ Call([op |-> "cleanup_old_sessions", max_age_hours |-> max_age_hours],
            Cardinality(to_delete(max_age_hours)))
    /\ UNCHANGED utcnow

\* time passes
Advance ==
    /\ \E time \in Instants : time > utcnow /\ utcnow' = time
    /\ Call([op |-> "utcnow"], utcnow')
    /\ UNCHANGED << sessions, heap >>

InitManager == InitWith([ids |-> AllSessionIds, threads |-> {}, turns |-> MaxManagerTurns])

NextManager ==
    \/ \E session_id \in workload.ids : GetOrCreate(session_id)
    \/ \E session_id \in workload.ids, text \in Messages : Use(session_id, text)
    \/ \E max_age_hours \in MaxAges : Cleanup(max_age_hours)
    \/ Advance

SpecManager == InitManager /\ [][NextManager]_vars

(***************************************************************************)
(* The properties.  In sequential runs every state is the state at the end *)
(* of a turn (or after a deletion), so a step of Analyze is one whole turn.*)
(***************************************************************************)

\* the stored dict of a session id
Stored(id) == heap[sessions[id]]
StoredNext(id) == heap'[sessions'[id]]

\* the step hands a report for this session id to the ReportSink
ReportAdded(id) ==
    /\ Len(reports') = Len(reports) + 1
    /\ reports'[Len(reports')].sessionId = id

\* the step is a whole turn of this text on this session id
TurnOn(id, text) == received'[id] = Append(received[id], text)

\* the session id is in the store before and after the step
Stays(id) == id \in DOMAIN sessions /\ id \in DOMAIN sessions'

\* "substantial intelligence": a non-empty field among bank accounts,
\* payment handles, phishing links and phone numbers
SubstantialIntelligence(d) ==
    \E key \in {"bankAccounts", "upiIds", "phishingLinks", "phoneNumbers"} :
        d.intelligence[key] # <<>>

\* the finalization policy as the specification words it, confidence in
\* hundredths
ShouldFinalize(d) ==
    /\ d.scam_detected
    /\ \/ d.message_count >= 15
       \/ SubstantialIntelligence(d) /\ d.message_count >= 8
       \/ d.scam_confidence >= 80 /\ SubstantialIntelligence(d)

\* C1: after the ReportSink was invoked for a session, no later message of
\* that session invokes it again.  A stored session that satisfies the
\* callback's guard was reported by its last turn, so the next turn of it
\* must add no report.
C1_OneReportPerSession ==
    [][\A id \in DOMAIN sessions : SendsReport(Stored(id)) => ~ReportAdded(id)]_vars

\* C2: at the end of a turn, a session that satisfies the finalization
\* policy has finalized = TRUE and a report of it has been handed over.
C2_PolicyFinalizes ==
    \A id \in DOMAIN sessions :
        ShouldFinalize(Stored(id)) =>
            /\ Stored(id).finalized
            /\ \E k \in 1..Len(reports) : reports[k].sessionId = id

\* C3: a report is handed over for a session only when the finalization
\* policy holds for the session the turn leaves.
C3_ReportOnlyUnderPolicy ==
    [][\A id \in DOMAIN sessions' : ReportAdded(id) => ShouldFinalize(StoredNext(id))]_vars

\* C4: for a session that stays in the store, scam_detected never goes from
\* TRUE back to FALSE (and so goes from FALSE to TRUE at most once).
C4_DetectedMonotone ==
    [][\A id \in DOMAIN sessions :
          Stays(id) /\ Stored(id).scam_detected => StoredNext(id).scam_detected]_vars

\* C4, its case: a detected session whose latest turn was a message the
\* scorer does not call a scam
C4_Witness ==
    \E id \in DOMAIN sessions :
        /\ Stored(id).scam_detected
        /\ Stored(id).message_count >= 2
        /\ Stored(id).message_count <= ScoringWindow
        /\ Stored(id).conversation[Len(Stored(id).conversation) - 1].text = Benign

\* C5, C6: no code sets the flag, so no reachable session has finalized =
\* TRUE; "finalized implies detected" and "finalized stays" have no case.
NeverFinalized == \A r \in DOMAIN heap : ~heap[r].finalized

\* C7: when a report is handed to the ReportSink for a session, the session's
\* finalized flag is TRUE after the turn, whatever the delivery's outcome.
C7_FinalizedAfterReport ==
    [][\A id \in DOMAIN sessions' :
          ReportAdded(id) /\ delivery' \in Deliveries => StoredNext(id).finalized]_vars

\* C8: a turn on a session that is not yet detected, with a message the
\* scorer calls a scam (is_scam, confidence >= 0.5), leaves the session
\* detected with that call's confidence and indicators.
C8_DetectionCaptured ==
    [][\A id \in AllSessionIds, text \in Messages :
          ( /\ TurnOn(id, text)
            /\ (id \in DOMAIN sessions => ~Stored(id).scam_detected)
            /\ ScoreOf[text].is_scam )
          => ( /\ StoredNext(id).scam_detected
               /\ StoredNext(id).scam_confidence = ScoreOf[text].confidence
               /\ StoredNext(id).scam_indicators = ScoreOf[text].indicators )]_vars

\* the texts of the inbound entries of a conversation log
InboundTexts(d) ==
    { d.conversation[k].text : k \in { j \in 1..Len(d.conversation) :
                                           d.conversation[j].sender \in Senders } }

\* every value the extractor finds in the text is in the session
HoldsIntelOf(d, text) ==
    \A key \in Range(IntelKeys) : Range(IntelOf[text][key]) \subseteq Range(d.intelligence[key])

\* C9: when the concurrent calls for a session id have all completed, no
\* update is lost: message_count is the number of calls, the log has an
\* inbound entry and a reply for each call, and every value extracted from
\* a call's message is in the session.
C9_NoLostUpdate ==
    \A id \in DOMAIN sessions :
        Quiet =>
            /\ Stored(id).message_count = Len(received[id])
            /\ Len(Stored(id).conversation) = 2 * Len(received[id])
            /\ Range(received[id]) \subseteq InboundTexts(Stored(id))
            /\ \A text \in Range(received[id]) : HoldsIntelOf(Stored(id), text)

\* C10: once a session is detected, no later turn lowers scam_confidence.
C10_ConfidenceNeverLowered ==
    [][\A id \in DOMAIN sessions :
          Stays(id) /\ Stored(id).scam_detected
          => StoredNext(id).scam_confidence >= Stored(id).scam_confidence]_vars

\* C10, its case: a session detected at the highest confidence whose latest
\* turn, still inside the scoring window, was a scam message of a lower score
C10_Witness ==
    \E id \in DOMAIN sessions :
        /\ Stored(id).scam_detected
        /\ Stored(id).scam_confidence > ScoreOf[Pressure].confidence
        /\ Stored(id).message_count >= 2
        /\ Stored(id).message_count <= ScoringWindow
        /\ Stored(id).conversation[Len(Stored(id).conversation) - 1].text = Pressure

\* no value occurs twice in the list
NoDuplicates(xs) == \A i, j \in 1..Len(xs) : xs[i] = xs[j] => i = j

\* C11: at the end of every turn, each value the extractor returned for any
\* message the session has logged is in the session's list of that field,
\* and no list of the session holds a value twice.
C11_IntelligenceUnion ==
    \A id \in DOMAIN sessions :
        /\ \A text \in InboundTexts(Stored(id)) : HoldsIntelOf(Stored(id), text)
        /\ \A key \in Range(IntelKeys) : NoDuplicates(Stored(id).intelligence[key])

\* C11, its case: a session whose first and latest messages both carried the
\* same account, link and number, with a message without any in between
C11_Witness ==
    \E id \in DOMAIN sessions :
        /\ Stored(id).message_count >= 3
        /\ Stored(id).conversation[1].text = BankScam
        /\ Stored(id).conversation[3].text = Benign
        /\ Stored(id).conversation[Len(Stored(id).conversation) - 1].text = BankScam
        /\ Len(Stored(id).intelligence["bankAccounts"]) = 1

\* the number of inbound entries of a conversation log
InboundCount(d) ==
    Cardinality({ k \in 1..Len(d.conversation) : d.conversation[k].sender \in Senders })

\* C12: a turn on a session adds exactly one to its message_count (a new
\* session starts from 0), after which the count is the number of inbound
\* messages the session has logged; no other step changes the count of a
\* session that stays in the store, so it never decreases.
C12_CountsInboundMessages ==
    [][\A id \in DOMAIN sessions' :
          IF \E text \in Messages : TurnOn(id, text)
          THEN /\ StoredNext(id).message_count =
                     (IF id \in DOMAIN sessions THEN Stored(id).message_count ELSE 0) + 1
               /\ StoredNext(id).message_count = InboundCount(StoredNext(id))
          ELSE Stays(id) => StoredNext(id).message_count = Stored(id).message_count]_vars

\* C12, its case: a session that has taken several turns, detected before
\* the latest of them
C12_Witness ==
    \E id \in DOMAIN sessions :
        /\ Stored(id).message_count >= 4
        /\ Stored(id).scam_detected
        /\ Stored(id).conversation[1].text = Pressure

\* C13: in every reachable state, between the steps of the handlers too, a
\* stored session's message_count is at least the number of entries of its
\* log whose sender is not the decoy.
C13_CountCoversLog ==
    \A id \in DOMAIN sessions : Stored(id).message_count >= InboundCount(Stored(id))

\* the session dict a turn starts from
Previous(id) == IF id \in DOMAIN sessions THEN Stored(id) ELSE NewSession(id)

\* C14: a turn whose report is not delivered (another status, a timeout or
\* an exception) still answers 200 with the decoy reply it logged, stores
\* the session that the request and the reply alone determine, the same as
\* after a delivery, and hands over exactly one report.
C14_DeliveryFailureAbsorbed ==
    [][\A id \in AllSessionIds, sender \in Senders, text \in Messages :
          ( /\ TurnOn(id, text)
            /\ ReportAdded(id)
            /\ delivery' \in Deliveries \ {"accepted"} )
          => ( /\ response'.status = 200
               /\ response'.agentResponse \in
                      AgentResponses(BeforeReply(Previous(id), sender, text), text)
               /\ StoredNext(id) = AfterReply(BeforeReply(Previous(id), sender, text),
                                              response'.agentResponse)
               /\ Len(reports') = Len(reports) + 1 )]_vars

\* C14, its case: the latest turn's report timed out and the turn was
\* answered
C14_Witness ==
    /\ delivery = "timeout"
    /\ Len(reports) >= 1
    /\ response.status = 200
    /\ \E id \in DOMAIN sessions :
          /\ reports[Len(reports)].sessionId = id
          /\ Stored(id).conversation[Len(Stored(id).conversation)].text = response.agentResponse

C16_ReturnedValuesValid ==
    probe.input # <<>> =>
        /\ \A acc \in Range(probe.output.bankAccounts) : DigitCount(acc) \in 9..18
        /\ \A phone \in Range(probe.output.phoneNumbers) : DigitCount(phone) \in 10..15
        /\ \A link \in Range(probe.output.phishingLinks) :
              /\ Len(link) \in 5..500
              /\ \E prefix \in {"http://", "https://", "www."} : StartsWith(link, prefix)
        /\ \A upi \in Range(probe.output.upiIds) : _is_valid_upi(upi)
        /\ \A run \in {Run9, Run18} :
              run \in Range(probe.input) => run \in Range(probe.output.bankAccounts)
        /\ \A run \in {Run8, Run19} : run \notin Range(probe.output.bankAccounts)

\* C16, its case: a labelled run of 19 digits, which the label pattern
\* captures and the validator drops, while the phone pattern's 15 digits of
\* it pass theirs
C16_Witness ==
    /\ probe.input = << "account:", Run19 >>
    /\ probe.output.bankAccounts = <<>>
    /\ probe.output.phoneNumbers # <<>>

\* the positions of "@" in a string
AtSigns(text) == { k \in 1..Len(text) : Ch(text, k) = "@" }

\* every character of the string is in the set
OnlyOf(str, chars) == \A k \in 1..Len(str) : Ch(str, k) \in chars

\* the acceptance rule as it is claimed, on the local part and the provider
\* part of a candidate with one "@"
AcceptableParts(username, provider) ==
    /\ OnlyOf(username, ClsAlnum \cup {".", "_", "-"})
    /\ Len(username) >= 2
    /\ \/ ToLower(provider) \in valid_banks
       \/ OnlyOf(provider, ClsAlnum) /\ Len(provider) >= 3

AcceptableAt(text, at) == AcceptableParts(SubSeq(text, 1, at - 1), SubSeq(text, at + 1, Len(text)))

Acceptable(text) ==
    /\ Cardinality(AtSigns(text)) = 1
    /\ \A at \in AtSigns(text) : AcceptableAt(text, at)

Probed(op) == DOMAIN probe.input # {} /\ probe.input.op = op
ProbedNext(op) == DOMAIN probe'.input # {} /\ probe'.input.op = op

KeyRefused(req) == req.api_key # API_KEY

Blank(text) == \A k \in 1..Len(text) : Ch(text, k) = " "

Defective(req) ==
    \/ req.content_type # "application/json"
    \/ req.json # "object"
    \/ "sessionId" \notin req.fields
    \/ "message" \notin req.fields
    \/ Blank(req.text)
    \/ Len(req.text) > MaxTextLength

\* C19: an /analyze request that request validation rejects (missing or
\* wrong x-api-key: 401; wrong content type, a body that is no object with
\* sessionId and message, empty text, text longer than 5000 characters:
\* 400; 400 or 401 when both apply) never reaches the core: the step that
\* answers it creates no session, changes no field of any session and sends
\* no report.
C19_RejectedNeverReachesCore ==
    [][(ProbedNext("analyze") /\ (KeyRefused(probe'.input) \/ Defective(probe'.input)))
         => /\ response'.status \in {400, 401}
            /\ ~ Defective(probe'.input) => response'.status = 401
            /\ ~ KeyRefused(probe'.input) => response'.status = 400
            /\ UNCHANGED << sessions, heap, reports, delivery, received >>]_vars

\* an over-long text with the right key is answered 400 while a session
\* with messages exists
C19_Witness ==
    /\ Probed("analyze")
    /\ probe.input.text = LongText
    /\ probe.input.api_key = API_KEY
    /\ response.status = 400
    /\ \E id \in DOMAIN sessions : Stored(id).message_count >= 2

ReadOps == { "get_session", "export_session", "list_sessions", "get_statistics", "sessions" }

\* C20: get_session, export_session, list_sessions, get_statistics and
\* GET /sessions leave the store, every field of every session and the
\* reports unchanged, on any store and however often they are called.
C20_IntrospectionReadOnly ==
    [][(DOMAIN probe'.input # {} /\ probe'.input.op \in ReadOps)
         => UNCHANGED << sessions, heap, reports, delivery, received >>]_vars

\* get_statistics has counted the messages of an existing session
C20_Witness ==
    /\ Probed("get_statistics")
    /\ probe.output.total_sessions = 1
    /\ probe.output.total_messages >= 2
    /\ \E id \in DOMAIN sessions : Stored(id).message_count = probe.output.total_messages

\* the positions of a request thread between the fetch of its session dict
\* and update_session
Updating ==
    { "count_read", "count_write", "log_message", "detect_check", "detect_write",
      "extend", "dedupe_read", "dedupe_write", "reply", "notes", "update" }

\* C21: while an /analyze call is between fetching its session and storing
\* it back, the session is in the store, under the dict the call works on.
C21_NoEvictionMidUpdate ==
    \A t \in workload.threads :
        pc[t] \in Updating =>
            /\ local[t].sid \in DOMAIN sessions
            /\ sessions[local[t].sid] = local[t].ref

\* the note-generation rule applied to the session as it stands
NotesDue(d) == generate_agent_notes(d.scam_indicators, d.intelligence)

\* C22: after every processed inbound message the notes of the session,
\* detected or not, are the note-generation rule applied to its current
\* scam indicators and intelligence.
C22_NotesFollowRule ==
    \A id \in DOMAIN sessions : Stored(id).agent_notes = NotesDue(Stored(id))

\* the number of entries of a list that the test holds for
HowMany(list, Test(_)) == Cardinality({ k \in 1..Len(list) : Test(list[k]) })

Bit(fires) == IF fires THEN 1 ELSE 0

\* the total weight of the claim: every keyword, pattern and check counted
\* once if it matches at all
TotalWeight(message) ==
    25 * HowMany(critical_keywords, LAMBDA k : Contains(ToLower(message), k))
    + 10 * HowMany(warning_keywords, LAMBDA k : Contains(ToLower(message), k))
    + 15 * HowMany(suspicious_patterns, LAMBDA q : FindAll(q.re, message) # <<>>)
    + 20 * Bit(_has_urgency(ToLower(message)))
    + 25 * Bit(_has_threats(ToLower(message)))
    + 20 * Bit(_has_payment_request(ToLower(message)))
    + 5 * Bit(WordCount(message) < 5)
    + 10 * Bit(WordCount(message) > 100)
    + 10 * Bit(CountChar(message, "!") >= 3)

\* the scorer's result on the message without its last word
ShorterResult == detect_scam(JoinWords(SubSeq(probe.input, 1, Len(probe.input) - 1)))

\* C23: the confidence (in hundredths) is min(totalWeight, 100), where
\* totalWeight adds the weight of each keyword, pattern and check once if it
\* matches at all; it lies in 0..100, and a message on which every rule of a
\* shorter message fires, and possibly more, has at least that message's
\* confidence.
C23_ConfidenceIsCappedWeight ==
    probe.input # <<>> =>
        /\ probe.output.result.confidence = Min(TotalWeight(JoinWords(probe.input)), 100)
        /\ probe.output.result.confidence \in 0..100
        /\ Range(ShorterResult.indicators) \subseteq Range(probe.output.result.indicators)
              => ShorterResult.confidence <= probe.output.result.confidence

\* C23, its case: the weights of the rules that fire add up to 110 and the
\* confidence is 1
C23_Witness ==
    /\ probe.input = << "urgent", "immediately!!!", "fine" >>
    /\ probe.output.score = 110
    /\ probe.output.result.confidence = 100

\* C24: the urgency phrases and the critical keywords have no entry in
\* common, and a message that is one word is never scored both as that
\* critical keyword and as urgency.
C24_UrgencyDisjointFromCritical ==
    probe.input # <<>> =>
        /\ Range(urgency_phrases) \cap Range(critical_keywords) = {}
        /\ Len(probe.input) = 1 =>
              ~ ( /\ Quoted("Critical keyword: ", ToLower(probe.input[1]))
                        \in Range(probe.output.result.indicators)
                  /\ "Urgency detected" \in Range(probe.output.result.indicators) )

\* the k-th entry of a log is an inbound message if k is odd, a decoy reply
\* if k is even
Alternates(log) ==
    \A k \in 1..Len(log) :
        IF k % 2 = 1 THEN log[k].sender \in Senders ELSE log[k].sender = "user"

\* C25: a turn appends to the session's log exactly the inbound message and
\* then the decoy reply it answers with, leaving the entries before them as
\* they were (a new session starts from the empty log); no other step
\* changes the log of a session that stays in the store; after n messages
\* handled one at a time the log has 2n entries, inbound and decoy
\* alternating.
C25_LogAppendOnly ==
    [][\A id \in DOMAIN sessions' :
          IF \E text \in Messages : TurnOn(id, text)
          THEN /\ \E sender \in Senders, text \in Messages :
                    /\ TurnOn(id, text)
                    /\ StoredNext(id).conversation =
                          Previous(id).conversation
                          \o << [sender |-> sender, text |-> text],
                                [sender |-> "user", text |-> response'.agentResponse] >>
               /\ Len(StoredNext(id).conversation) = 2 * StoredNext(id).message_count
               /\ Alternates(StoredNext(id).conversation)
          ELSE Stays(id) => StoredNext(id).conversation = Stored(id).conversation]_vars

\* C25, its case: a session after three turns of different messages
C25_Witness ==
    \E id \in DOMAIN sessions :
        /\ Len(Stored(id).conversation) = 6
        /\ Stored(id).conversation[1].text = Benign
        /\ Stored(id).conversation[3].text = BankScam
        /\ Stored(id).conversation[5].text = Pressure
        /\ Stored(id).conversation[6].sender = "user"

\* the age of a stored session, in hours
Age(id) == utcnow - fromisoformat(Stored(id).start_time)

\* C26: cleanup_old_sessions(max_age) removes exactly the sessions whose age
\* since their start (the instant of their creation) exceeds max_age, the
\* default being 24 hours; every other session stays in the store with all
\* its fields; the call returns the number of sessions it removed.
C26_SweepRemovesExactlyTheOld ==
    [][ /\ ProbedNext("cleanup_old_sessions") =>
              /\ probe'.input.max_age_hours \in { 1, 24 }
              /\ DOMAIN sessions' =
                    { id \in DOMAIN sessions : ~ (Age(id) > probe'.input.max_age_hours) }
              /\ \A id \in DOMAIN sessions' : StoredNext(id) = Stored(id)
              /\ probe'.output = Cardinality(DOMAIN sessions \ DOMAIN sessions')
        /\ ProbedNext("get_or_create_session") =>
              \A id \in DOMAIN sessions' \ DOMAIN sessions :
                  fromisoformat(StoredNext(id).start_time) = utcnow ]_vars

\* C26, its case: a sweep with the default age at hour 25 has removed the
\* session started at hour 0 and kept the one started at hour 1, with the
\* message it has handled
C26_Witness ==
    /\ Probed("cleanup_old_sessions")
    /\ probe.input.max_age_hours = 24
    /\ probe.output = 1
    /\ utcnow = 25
    /\ \E id \in DOMAIN sessions :
          /\ Age(id) = 24
          /\ Stored(id).message_count = 1
          /\ Stored(id).scam_detected

\* C27: get_or_create_session for an id not in the store stores a session
\* with message_count 0, scam_detected false, scam_confidence 0, no
\* indicators, an empty log, empty intelligence and finalized false; for an
\* id in the store it returns the stored session and changes no field of
\* it, however often it is called; it changes no other session.
C27_LazyCreationIdempotent ==
    [][ProbedNext("get_or_create_session") =>
          /\ probe'.input.session_id \in DOMAIN sessions'
          /\ probe'.output = StoredNext(probe'.input.session_id)
          /\ IF probe'.input.session_id \in DOMAIN sessions
             THEN /\ sessions' = sessions
                  /\ StoredNext(probe'.input.session_id) = Stored(probe'.input.session_id)
             ELSE /\ probe'.output.session_id = probe'.input.session_id
                  /\ probe'.output.message_count = 0
                  /\ probe'.output.scam_detected = FALSE
                  /\ probe'.output.scam_confidence = 0
                  /\ probe'.output.scam_indicators = <<>>
                  /\ probe'.output.conversation = <<>>
                  /\ \A key \in Range(IntelKeys) : probe'.output.intelligence[key] = <<>>
                  /\ probe'.output.agent_notes = ""
                  /\ probe'.output.finalized = FALSE
          /\ \A id \in DOMAIN sessions \ {probe'.input.session_id} :
                id \in DOMAIN sessions' /\ StoredNext(id) = Stored(id)]_vars

\* C27, its case: the call returned a session that had handled a message and
\* was detected, at a later hour than its creation
C27_Witness ==
    /\ Probed("get_or_create_session")
    /\ probe.input.session_id \in DOMAIN sessions
    /\ probe.output = Stored(probe.input.session_id)
    /\ probe.output.message_count = 1
    /\ probe.output.scam_detected
    /\ Age(probe.input.session_id) > 0

\* C28: a turn on a session that has handled 5 or more messages and is not
\* detected leaves it with scam_detected false, scam_confidence 0 and no
\* indicators, whatever the message, and hands over no report.
C28_NoDetectionAfterWindow ==
    [][\A id \in DOMAIN sessions :
          ( /\ \E text \in Messages : TurnOn(id, text)
            /\ Stored(id).message_count >= 5
            /\ ~ Stored(id).scam_detected )
          => ( /\ id \in DOMAIN sessions'
               /\ ~ StoredNext(id).scam_detected
               /\ StoredNext(id).scam_confidence = 0
               /\ StoredNext(id).scam_indicators = <<>>
               /\ reports' = reports )]_vars

\* C28, its case: the sixth message of an undetected session is one the
\* scorer calls a scam with a confidence above 0.5
C28_Witness ==
    \E id \in DOMAIN sessions :
        /\ Stored(id).message_count = 6
        /\ ~ Stored(id).scam_detected
        /\ Stored(id).conversation[11].text = BankScam
        /\ Detected(ScoreOf[BankScam])
        /\ reports = <<>>

\* C30: a step that hands over a report does so for a session that is
\* detected and has a message_count of at least 3, and the payload carries
\* the session id, scamDetected true and the session's message_count,
\* intelligence and notes as the step leaves them.
C30_ReportOnlyForDetected ==
    [][\A id \in AllSessionIds :
          ReportAdded(id) =>
              /\ id \in DOMAIN sessions'
              /\ StoredNext(id).scam_detected
              /\ StoredNext(id).message_count >= 3
              /\ reports'[Len(reports')] =
                    [sessionId |-> id,
                     scamDetected |-> TRUE,
                     totalMessagesExchanged |-> StoredNext(id).message_count,
                     extractedIntelligence |-> StoredNext(id).intelligence,
                     agentNotes |-> StoredNext(id).agent_notes]]_vars

\* C30, its case: the first report of a session detected on its first
\* message, handed over on its third, with the intelligence of that message
C30_Witness ==
    /\ Len(reports) = 1
    /\ reports[1].totalMessagesExchanged = 3
    /\ reports[1].extractedIntelligence.bankAccounts # <<>>
    /\ reports[1].agentNotes # ""
    /\ \E id \in DOMAIN sessions :
          /\ reports[1].sessionId = id
          /\ Stored(id).message_count = 3
          /\ Stored(id).conversation[1].text = BankScam
          /\ Stored(id).conversation[5].text = BankScam

\* C29: a turn on one session id leaves every other session id in the store
\* or out of it as it was, with every field of its session unchanged.
C29_SessionsIsolated ==
    [][\A id \in AllSessionIds :
          (\E text \in Messages : TurnOn(id, text)) =>
              \A other \in AllSessionIds \ {id} :
                  /\ other \in DOMAIN sessions <=> other \in DOMAIN sessions'
                  /\ other \in DOMAIN sessions => StoredNext(other) = Stored(other)]_vars

\* C29, its case: two sessions side by side, one detected after one message
\* and one undetected after two
C29_Witness ==
    /\ DOMAIN sessions = { "s1", "s2" }
    /\ Stored("s1").message_count = 2
    /\ ~ Stored("s1").scam_detected
    /\ Stored("s2").message_count = 1
    /\ Stored("s2").scam_detected
    /\ Stored("s2").intelligence.bankAccounts # <<>>
    /\ Stored("s1").intelligence.bankAccounts = <<>>

====
